---- MODULE Spec2Model ----
(***************************************************************************)
(* Model of src/model.py: the encoder / attention / decoder definitions    *)
(* and the module-level initialisation that builds them and their          *)
(* optimizers.                                                             *)
(*                                                                         *)
(* Numbers.  A tensor element is a pair <<n, d>>: the rational n/d when    *)
(* d > 0, and the IEEE not-a-number when d = 0.  Rationals are kept in     *)
(* lowest terms, so equal numbers are equal pairs.  The framework's        *)
(* transcendental functions are replaced by stand-ins that keep what the   *)
(* code relies on: exp is the power of two of the (max-shifted) argument   *)
(* with underflow to zero, tanh is the sign (its saturated value); both    *)
(* propagate not-a-number as IEEE arithmetic does.                         *)
(*                                                                         *)
(* Tensors are nested sequences, indexed from 1 where the code indexes     *)
(* from 0.                                                                 *)
(***************************************************************************)
EXTENDS Integers, Sequences, FiniteSets, TLC

\* ------------------------------------------------------------------ bounds
\* HIDDEN_SIZE of config (feature width of embeddings and hidden states)
HIDDEN_SIZE == 2
\* batch size B of the calls
BatchSize == 2
\* longest padded source sequence T of the calls
MaxLen == 2
\* voc.num_words: size of the vocabulary (the decoder's output_size)
NumWords == 2
\* the generators of input tensors are numbered 0..MaxSeed
MaxSeed == 1
\* optimizer steps taken in one run
MaxSteps == 2
\* exp(x - max) underflows to zero below 2^-ExpUnderflow
ExpUnderflow == 6
\* weight_decay = 1e-5 = 1 / WEIGHT_DECAY_INV
WEIGHT_DECAY_INV == 100000

\* ------------------------------------------------------------------ numbers
NaN == <<0, 0>>

\* the sequence f with its elements computed once (a function expression is
\* otherwise computed anew at each application)
Eager(f) == f \o <<>>

Abs(n) == IF n < 0 THEN -n ELSE n

RECURSIVE GCD(_, _)
GCD(a, b) == IF b = 0 THEN a ELSE GCD(b, a % b)

IsNaN(x) == x[2] = 0

\* the pair n/d in lowest terms with a positive denominator
Norm(n, d) ==
    IF d = 0 THEN NaN
    ELSE LET g == GCD(Abs(n), Abs(d))
             s == IF d < 0 THEN -1 ELSE 1
         IN  <<s * (n \div g), s * (d \div g)>>

R(n) == <<n, 1>>

RAdd(x, y) ==
    IF IsNaN(x) \/ IsNaN(y) THEN NaN
    ELSE Norm(x[1] * y[2] + y[1] * x[2], x[2] * y[2])

RMul(x, y) ==
    IF IsNaN(x) \/ IsNaN(y) THEN NaN
    ELSE Norm(x[1] * y[1], x[2] * y[2])

RNeg(x) == IF IsNaN(x) THEN NaN ELSE <<-x[1], x[2]>>

\* floor of a rational that is not NaN
Floor(x) == x[1] \div x[2]

RECURSIVE Pow2(_)
Pow2(k) == IF k <= 0 THEN 1 ELSE 2 * Pow2(k - 1)

RECURSIVE RSum(_)
RSum(s) == IF s = <<>> THEN R(0) ELSE RAdd(Head(s), RSum(Tail(s)))

RECURSIVE MaxOf(_)
MaxOf(s) ==
    IF Len(s) = 1 THEN s[1]
    ELSE LET m == MaxOf(Tail(s)) IN IF s[1] >= m THEN s[1] ELSE m

\* torch.tanh, saturated: the sign of the argument
Tanh(x) ==
    IF IsNaN(x) THEN NaN
    ELSE IF x[1] > 0 THEN R(1) ELSE IF x[1] < 0 THEN R(-1) ELSE R(0)

\* sum over i of a[i] * b[i]
Dot(a, b) == RSum(Eager([i \in 1..Len(a) |-> RMul(a[i], b[i])]))

\* nn.Linear: W x + bias, W a sequence of rows
Linear(W, bias, x) == Eager([o \in 1..Len(W) |-> RAdd(Dot(W[o], x), bias[o])])

VecAdd(a, b) == Eager([i \in 1..Len(a) |-> RAdd(a[i], b[i])])

Zeros(n) == Eager([i \in 1..n |-> R(0)])

AnyNaN(s) == \E i \in 1..Len(s) : IsNaN(s[i])

\* F.softmax of one row: exp(x - max) / sum exp(x - max)
SoftmaxRow(row) ==
    IF AnyNaN(row) THEN Eager([i \in 1..Len(row) |-> NaN])
    ELSE LET ints == Eager([i \in 1..Len(row) |-> Floor(row[i])])
             m == MaxOf(ints)
             e == Eager([i \in 1..Len(row) |->
                     IF ints[i] - m < -ExpUnderflow THEN 0
                     ELSE Pow2(ExpUnderflow + ints[i] - m)])
             tot == RSum(Eager([i \in 1..Len(row) |-> R(e[i])]))[1]
         IN  Eager([i \in 1..Len(row) |-> Norm(e[i], tot)])

\* a matrix given as a sequence of rows, transposed: torch.Tensor.t()
Transpose(M) ==
    IF M = <<>> THEN <<>>
    ELSE Eager([c \in 1..Len(M[1]) |-> Eager([r \in 1..Len(M) |-> M[r][c]])])

\* ------------------------------------------------------------------ state
VARIABLES
    pc,                      \* the module-level statement to run next
    RNN_TYPE, ATTN_MODEL, DEVICE, LEARNING_RATE, DECODER_LEARNING_RATIO,
                             \* the values imported from config
    heap,                    \* the parameter tensors, by identity
    embedding, encoder, decoder, encoder_optimizer, decoder_optimizer,
                             \* the module-level names
    raised,                  \* the exception that ended the initialisation
    steps,                   \* optimizer steps taken so far
    call                     \* the last call on the objects: arguments and result

vars == <<pc, RNN_TYPE, ATTN_MODEL, DEVICE, LEARNING_RATE, DECODER_LEARNING_RATIO,
          heap, embedding, encoder, decoder, encoder_optimizer, decoder_optimizer,
          raised, steps, call>>

config == <<RNN_TYPE, ATTN_MODEL, DEVICE, LEARNING_RATE, DECODER_LEARNING_RATIO>>

None == [kind |-> "None"]

\* the parameter tensors a run can allocate; one cell per layer
ParamIds == {"embedding", "encoder.rnn", "decoder.rnn", "decoder.concat",
             "decoder.out", "attn.attn", "attn.v", "embedding.copy"}

Unallocated == [alloc |-> FALSE, w |-> R(0), device |-> "cpu"]

\* a parameter the framework initialises, on the cpu
Fresh == [alloc |-> TRUE, w |-> R(0), device |-> "cpu"]

\* torch.FloatTensor(n) allocates without initialising: its content is whatever
\* the memory held, any bit pattern, not-a-number included
UninitValues == {R(0), R(1), NaN}

RnnTypes == {"LSTM", "GRU", "RNN"}
AttnNames == {"dot", "general", "concat", "bilinear"}
Devices == {"cpu", "cuda"}

\* ------------------------------------------------------------------ constructors
\* EncoderRNN.__init__ with a value check on RNN_TYPE added
EncoderRNN_init_Checked(rnn_type, hidden_size, emb) ==
    IF rnn_type \notin {"LSTM", "GRU"}
    THEN [raised |-> [kind |-> "ValueError", site |-> "EncoderRNN.__init__",
                      arg |-> rnn_type],
          self |-> None,
          params |-> {}]
    ELSE [raised |-> None,
          self |-> [kind |-> "EncoderRNN",
                    n_layers |-> 1,
                    hidden_size |-> hidden_size,
                    embedding |-> emb,
                    layers |-> IF rnn_type = "LSTM" THEN {"lstm"} ELSE {"gru"}],
          params |-> {"encoder.rnn"}]

\* EncoderRNN.__init__: the recurrent layer is chosen by RNN_TYPE; no else branch
EncoderRNN_init(rnn_type, hidden_size, emb) ==
    [raised |-> None,
     self |-> [kind |-> "EncoderRNN",
               n_layers |-> 1,
               hidden_size |-> hidden_size,
               embedding |-> emb,
               layers |-> IF rnn_type = "LSTM" THEN {"lstm"}
                          ELSE IF rnn_type = "GRU" THEN {"gru"}
                          ELSE {}],
     params |-> IF rnn_type \in {"LSTM", "GRU"} THEN {"encoder.rnn"} ELSE {}]

\* Attn.__init__ without the value check on the method name
Attn_init_Unchecked(method, hidden_size) ==
    [raised |-> None,
     self |-> [kind |-> "Attn",
               method |-> method,
               hidden_size |-> hidden_size,
               layers |-> IF method = "general" THEN {"attn"}
                          ELSE IF method = "concat" THEN {"attn", "v"}
                          ELSE {}],
     params |-> IF method = "general" THEN {"attn.attn"}
                ELSE IF method = "concat" THEN {"attn.attn", "attn.v"}
                ELSE {}]

\* Attn.__init__: the value check on the method name, then the layers of the method
Attn_init(method, hidden_size) ==
    IF method \notin {"dot", "general", "concat"}
    THEN [raised |-> [kind |-> "ValueError", site |-> "Attn.__init__", arg |-> method],
          self |-> None,
          params |-> {}]
    ELSE [raised |-> None,
          self |-> [kind |-> "Attn",
                    method |-> method,
                    hidden_size |-> hidden_size,
                    layers |-> IF method = "general" THEN {"attn"}
                               ELSE IF method = "concat" THEN {"attn", "v"}
                               ELSE {}],
          params |-> IF method = "general" THEN {"attn.attn"}
                     ELSE IF method = "concat" THEN {"attn.attn", "attn.v"}
                     ELSE {}]

\* LuongAttnDecoderRNN.__init__ keeping a copy of the embedding it is given
LuongAttnDecoderRNN_init_Copy(rnn_type, attn_model, emb, hidden_size, output_size) ==
    LET a == Attn_init(attn_model, hidden_size)
        own == (IF rnn_type \in {"LSTM", "GRU"} THEN {"decoder.rnn"} ELSE {})
                 \cup {"decoder.concat", "decoder.out", "embedding.copy"}
    IN  IF a.raised # None
        THEN [raised |-> a.raised, self |-> None, params |-> own]
        ELSE [raised |-> None,
              self |-> [kind |-> "LuongAttnDecoderRNN",
                        attn_model |-> attn_model,
                        hidden_size |-> hidden_size,
                        output_size |-> output_size,
                        n_layers |-> 1,
                        embedding |-> [kind |-> "Embedding", weight |-> "embedding.copy"],
                        layers |-> (IF rnn_type = "LSTM" THEN {"lstm"}
                                    ELSE IF rnn_type = "GRU" THEN {"gru"}
                                    ELSE {})
                                   \cup {"embedding_dropout", "concat", "out", "attn"},
                        attn |-> a.self],
              params |-> own \cup a.params]

\* LuongAttnDecoderRNN.__init__: the layers, then the attention (which may raise)
LuongAttnDecoderRNN_init(rnn_type, attn_model, emb, hidden_size, output_size) ==
    LET a == Attn_init(attn_model, hidden_size)
        own == (IF rnn_type \in {"LSTM", "GRU"} THEN {"decoder.rnn"} ELSE {})
                 \cup {"decoder.concat", "decoder.out"}
    IN  IF a.raised # None
        THEN [raised |-> a.raised, self |-> None, params |-> own]
        ELSE [raised |-> None,
              self |-> [kind |-> "LuongAttnDecoderRNN",
                        attn_model |-> attn_model,
                        hidden_size |-> hidden_size,
                        output_size |-> output_size,
                        n_layers |-> 1,
                        embedding |-> emb,
                        layers |-> (IF rnn_type = "LSTM" THEN {"lstm"}
                                    ELSE IF rnn_type = "GRU" THEN {"gru"}
                                    ELSE {})
                                   \cup {"embedding_dropout", "concat", "out", "attn"},
                        attn |-> a.self],
              params |-> own \cup a.params]

\* module.parameters(): the parameters of the module and of its submodules
Parameters(m) ==
    IF m.kind = "EncoderRNN"
    THEN {m.embedding.weight} \cup (IF m.layers = {} THEN {} ELSE {"encoder.rnn"})
    ELSE {m.embedding.weight, "decoder.concat", "decoder.out"}
           \cup (IF m.layers \cap {"lstm", "gru"} = {} THEN {} ELSE {"decoder.rnn"})
           \cup (IF "attn" \in m.attn.layers THEN {"attn.attn"} ELSE {})
           \cup (IF "v" \in m.attn.layers THEN {"attn.v"} ELSE {})

\* module.to(device) that moves nothing
MovedTo_Nothing(h, m, device) == h

\* module.to(device): every parameter of the module is moved in place
MovedTo(h, m, device) ==
    [p \in ParamIds |-> IF p \in Parameters(m) THEN [h[p] EXCEPT !.device = device]
                        ELSE h[p]]

\* optim.Adam(params, lr, weight_decay)
Adam(params, lr, weight_decay) ==
    [kind |-> "Adam", params |-> params, lr |-> lr, weight_decay |-> weight_decay,
     state |-> {}]

\* ------------------------------------------------------------------ initialisation
Init ==
    /\ pc = "embedding"
    /\ RNN_TYPE \in RnnTypes
    /\ ATTN_MODEL \in AttnNames
    /\ DEVICE \in Devices
    /\ LEARNING_RATE \in {1, 2}
    /\ DECODER_LEARNING_RATIO \in {1, 5}
    /\ heap = [p \in ParamIds |-> Unallocated]
    /\ embedding = None
    /\ encoder = None
    /\ decoder = None
    /\ encoder_optimizer = None
    /\ decoder_optimizer = None
    /\ raised = None
    /\ steps = 0
    /\ call = None

\* line 181: embedding = nn.Embedding(voc.num_words, HIDDEN_SIZE)
MakeEmbedding ==
    /\ pc = "embedding"
    /\ embedding' = [kind |-> "Embedding", weight |-> "embedding"]
    /\ heap' = [heap EXCEPT !["embedding"] = Fresh]
    /\ pc' = "encoder"
    /\ UNCHANGED <<config, encoder, decoder, encoder_optimizer, decoder_optimizer,
                   raised, steps, call>>

\* line 184: encoder = EncoderRNN(HIDDEN_SIZE, embedding, ENCODER_N_LAYERS, DROPOUT)
MakeEncoder ==
    /\ pc = "encoder"
    /\ LET r == EncoderRNN_init(RNN_TYPE, HIDDEN_SIZE, embedding)
       IN  /\ heap' = [p \in ParamIds |-> IF p \in r.params THEN Fresh ELSE heap[p]]
           /\ IF r.raised # None
              THEN /\ raised' = r.raised
                   /\ pc' = "raised"
                   /\ UNCHANGED encoder
              ELSE /\ encoder' = r.self
                   /\ pc' = "decoder"
                   /\ UNCHANGED raised
    /\ UNCHANGED <<config, embedding, decoder, encoder_optimizer, decoder_optimizer,
                   steps, call>>

\* lines 185-187: decoder = LuongAttnDecoderRNN(ATTN_MODEL, embedding, ...)
MakeDecoder ==
    /\ pc = "decoder"
    /\ LET r == LuongAttnDecoderRNN_init(RNN_TYPE, ATTN_MODEL, embedding,
                                         HIDDEN_SIZE, NumWords)
       IN  /\ \E v \in UninitValues :
                heap' = [p \in ParamIds |->
                           IF p \notin r.params THEN heap[p]
                           ELSE IF p = "attn.v" THEN [Fresh EXCEPT !.w = v]
                           ELSE Fresh]
           /\ IF r.raised # None
              THEN /\ raised' = r.raised
                   /\ pc' = "raised"
                   /\ UNCHANGED decoder
              ELSE /\ decoder' = r.self
                   /\ pc' = "encoder_to"
                   /\ UNCHANGED raised
    /\ UNCHANGED <<config, embedding, encoder, encoder_optimizer, decoder_optimizer,
                   steps, call>>

\* line 190: encoder = encoder.to(DEVICE)
EncoderTo ==
    /\ pc = "encoder_to"
    /\ heap' = MovedTo(heap, encoder, DEVICE)
    /\ pc' = "decoder_to"
    /\ UNCHANGED <<config, embedding, encoder, decoder, encoder_optimizer,
                   decoder_optimizer, raised, steps, call>>

\* line 191: decoder = decoder.to(DEVICE)
DecoderTo ==
    /\ pc = "decoder_to"
    /\ heap' = MovedTo(heap, decoder, DEVICE)
    /\ pc' = "encoder_optimizer"
    /\ UNCHANGED <<config, embedding, encoder, decoder, encoder_optimizer,
                   decoder_optimizer, raised, steps, call>>

\* line 197: encoder_optimizer = optim.Adam(encoder.parameters(), lr=LEARNING_RATE)
MakeEncoderOptimizer ==
    /\ pc = "encoder_optimizer"
    /\ encoder_optimizer' = Adam(Parameters(encoder), LEARNING_RATE, R(0))
    /\ pc' = "decoder_optimizer"
    /\ UNCHANGED <<config, heap, embedding, encoder, decoder, decoder_optimizer,
                   raised, steps, call>>

\* lines 198-200: decoder_optimizer = optim.Adam(decoder.parameters(), ...)
MakeDecoderOptimizer ==
    /\ pc = "decoder_optimizer"
    /\ decoder_optimizer' = Adam(Parameters(decoder),
                                 LEARNING_RATE * DECODER_LEARNING_RATIO,
                                 Norm(1, WEIGHT_DECAY_INV))
    /\ pc' = "optimizer_state"
    /\ UNCHANGED <<config, heap, embedding, encoder, decoder, encoder_optimizer,
                   raised, steps, call>>

\* lines 217-225: every tensor of the optimizers' state is moved with .cuda();
\* no step has been taken, both states are empty and the loops do nothing
MoveOptimizerState ==
    /\ pc = "optimizer_state"
    /\ pc' = "done"
    /\ UNCHANGED <<config, heap, embedding, encoder, decoder, encoder_optimizer,
                   decoder_optimizer, raised, steps, call>>

\* ------------------------------------------------------------------ tensors
\* the entries of the input tensors of a call, by generator
Gen(seed, a, b, c) == ((3 * seed + a * a + 2 * b + c * (a + b) + c) % 5) - 2

Seeds == 0..MaxSeed

\* a float tensor of shape (n, BatchSize, HIDDEN_SIZE)
GenTensor(seed, n) ==
    Eager([t \in 1..n |-> Eager([b \in 1..BatchSize |-> Eager([i \in 1..HIDDEN_SIZE |->
        R(Gen(seed, t, b, i))])])])

\* a tensor of word indexes of shape (n, BatchSize)
GenWords(seed, n) ==
    Eager([t \in 1..n |-> Eager([b \in 1..BatchSize |-> ((seed + t + b) % NumWords) + 1])])

\* the value of a (rows x cols) weight of parameter p: what the framework's
\* initialisation put there, moved by the optimizer steps since (h[p].w)
Weight(h, p, k, rows, cols) ==
    Eager([r \in 1..rows |-> Eager([c \in 1..cols |-> RAdd(R(Gen(k, r, c, 0)), h[p].w)])])

Bias(h, p, k, rows) == Eager([r \in 1..rows |-> RAdd(R(Gen(k, r, 1, 1)), h[p].w)])

\* nn.Embedding: the row of the table for each word index
Embed(h, emb, words) ==
    LET table == Weight(h, emb.weight, 0, NumWords, HIDDEN_SIZE)
    IN  Eager([t \in 1..Len(words) |-> Eager([b \in 1..Len(words[t]) |-> table[words[t][b]]])])

\* one step of the framework's recurrent cell on input x from state s; a stand-in
\* that depends on the input, the previous state and the layer's weights
Cell(h, p, x, s) == Eager([i \in 1..Len(x) |-> RAdd(RAdd(x[i], s[i]), h[p].w)])

\* ------------------------------------------------------------------ Attn
\* lines 81-82
dot_score(hidden, encoder_output) ==
    Eager([t \in 1..Len(encoder_output) |-> Eager([b \in 1..Len(encoder_output[t]) |->
        Dot(hidden[1][b], encoder_output[t][b])])])

\* lines 84-86
general_score(h, hidden, encoder_output) ==
    LET W == Weight(h, "attn.attn", 1, HIDDEN_SIZE, HIDDEN_SIZE)
        bias == Bias(h, "attn.attn", 1, HIDDEN_SIZE)
        energy == Eager([t \in 1..Len(encoder_output) |->
                     Eager([b \in 1..Len(encoder_output[t]) |->
                        Linear(W, bias, encoder_output[t][b])])])
    IN  Eager([t \in 1..Len(encoder_output) |-> Eager([b \in 1..Len(encoder_output[t]) |->
            Dot(hidden[1][b], energy[t][b])])])

\* lines 88-94
concat_score(h, hidden, encoder_output) ==
    LET W == Weight(h, "attn.attn", 2, HIDDEN_SIZE, 2 * HIDDEN_SIZE)
        bias == Bias(h, "attn.attn", 2, HIDDEN_SIZE)
        v == Eager([i \in 1..HIDDEN_SIZE |-> h["attn.v"].w])
        energy == Eager([t \in 1..Len(encoder_output) |->
                     Eager([b \in 1..Len(encoder_output[t]) |->
                        LET e == Linear(W, bias, hidden[1][b] \o encoder_output[t][b])
                        IN  Eager([i \in 1..HIDDEN_SIZE |-> Tanh(e[i])])])])
    IN  Eager([t \in 1..Len(encoder_output) |-> Eager([b \in 1..Len(encoder_output[t]) |->
            Dot(v, energy[t][b])])])

\* the layers a score function reads from self
Needs(branch) ==
    IF branch = "general_score" THEN {"attn"}
    ELSE IF branch = "concat_score" THEN {"attn", "v"}
    ELSE {}

\* the chain of lines 98-103 with the last test misspelt
Branch_NoDot(method) ==
    IF method = "general" THEN "general_score"
    ELSE IF method = "concat" THEN "concat_score"
    ELSE "none"

\* lines 98-103: the branch of forward taken for self.method
Branch(method) ==
    IF method = "general" THEN "general_score"
    ELSE IF method = "concat" THEN "concat_score"
    ELSE IF method = "dot" THEN "dot_score"
    ELSE "none"

\* lines 105-109: transpose, softmax over dim 1, unsqueeze(1)
Normalised(attn_energies) ==
    LET tr == Transpose(attn_energies)
    IN  Eager([b \in 1..Len(tr) |-> <<SoftmaxRow(tr[b])>>])

\* Attn.forward
Attn_forward(h, self, hidden, encoder_outputs) ==
    LET branch == Branch(self.method)
    IN  IF branch = "none"
        THEN [raised |-> [kind |-> "UnboundLocalError", site |-> "Attn.forward",
                          arg |-> "attn_energies"],
              branch |-> branch, value |-> <<>>]
        ELSE IF ~(Needs(branch) \subseteq self.layers)
        THEN [raised |-> [kind |-> "AttributeError", site |-> "Attn.forward",
                          arg |-> branch],
              branch |-> branch, value |-> <<>>]
        ELSE LET attn_energies ==
                   IF branch = "general_score"
                   THEN general_score(h, hidden, encoder_outputs)
                   ELSE IF branch = "concat_score"
                   THEN concat_score(h, hidden, encoder_outputs)
                   ELSE dot_score(hidden, encoder_outputs)
             IN  [raised |-> None, branch |-> branch,
                  value |-> Normalised(attn_energies)]

\* a caller applies decoder.attn to a decoder state and encoder outputs
AttnForward ==
    /\ pc = "done"
    /\ call = None
    /\ \E T \in 1..MaxLen, s1 \in Seeds, s2 \in Seeds :
         LET hidden == GenTensor(s1, 1)
             encoder_outputs == GenTensor(s2 + 1, T)
             r == Attn_forward(heap, decoder.attn, hidden, encoder_outputs)
         IN  call' = [op |-> "Attn.forward", self |-> decoder.attn,
                      hidden |-> hidden, encoder_outputs |-> encoder_outputs,
                      raised |-> r.raised, branch |-> r.branch, value |-> r.value]
    /\ UNCHANGED <<pc, config, heap, embedding, encoder, decoder, encoder_optimizer,
                   decoder_optimizer, raised, steps>>

\* ------------------------------------------------------------------ EncoderRNN
Tensor(data) == [kind |-> "Tensor", data |-> data]

\* no packing: every batch element keeps all the steps of the padded batch
pack_padded_sequence_All(embedded, input_lengths) ==
    [raised |-> None,
     seqs |-> Eager([b \in 1..Len(input_lengths) |->
                 Eager([t \in 1..Len(embedded) |-> embedded[t][b]])])]

\* nn.utils.rnn.pack_padded_sequence(embedded, input_lengths), enforce_sorted=True:
\* each batch element keeps its first input_lengths[b] steps
pack_padded_sequence(embedded, input_lengths) ==
    IF \E b \in 1..Len(input_lengths) : input_lengths[b] <= 0
    THEN [raised |-> [kind |-> "RuntimeError", site |-> "pack_padded_sequence",
                      arg |-> "length of a sample is not greater than 0"],
          seqs |-> <<>>]
    ELSE IF \E b \in 1..(Len(input_lengths) - 1) : input_lengths[b] < input_lengths[b + 1]
    THEN [raised |-> [kind |-> "RuntimeError", site |-> "pack_padded_sequence",
                      arg |-> "lengths must be sorted in decreasing order"],
          seqs |-> <<>>]
    ELSE IF input_lengths[1] > Len(embedded)
    THEN [raised |-> [kind |-> "RuntimeError", site |-> "pack_padded_sequence",
                      arg |-> "length exceeds the padded length"],
          seqs |-> <<>>]
    ELSE [raised |-> None,
          seqs |-> Eager([b \in 1..Len(input_lengths) |->
                      Eager([t \in 1..input_lengths[b] |-> embedded[t][b]])])]

RECURSIVE FwdState(_, _, _, _, _)
FwdState(h, p, xs, s0, t) ==
    IF t = 0 THEN s0 ELSE Cell(h, p, xs[t], FwdState(h, p, xs, s0, t - 1))

RECURSIVE BwdState(_, _, _, _, _)
BwdState(h, p, xs, s0, t) ==
    IF t = Len(xs) + 1 THEN s0 ELSE Cell(h, p, xs[t], BwdState(h, p, xs, s0, t + 1))

\* the bidirectional recurrent layer on a packed batch from initial state h0
\* (None: zeros): per step the forward state followed by the backward state
BiRnn(h, p, seqs, h0) ==
    LET init(d, b) == IF h0 = None THEN Zeros(HIDDEN_SIZE) ELSE h0.data[d][b]
    IN  [out |-> Eager([b \in 1..Len(seqs) |-> Eager([t \in 1..Len(seqs[b]) |->
                    FwdState(h, p, seqs[b], init(1, b), t)
                      \o BwdState(h, p, seqs[b], init(2, b), t)])]),
         h_n |-> << Eager([b \in 1..Len(seqs) |->
                       FwdState(h, p, seqs[b], init(1, b), Len(seqs[b]))]),
                    Eager([b \in 1..Len(seqs) |->
                       BwdState(h, p, seqs[b], init(2, b), 1)]) >>]

\* nn.utils.rnn.pad_packed_sequence: as long as the longest sequence, zeros after
\* the end of each shorter one
pad_packed_sequence(seqs, width) ==
    LET T == MaxOf(Eager([b \in 1..Len(seqs) |-> Len(seqs[b])]))
    IN  Eager([t \in 1..T |-> Eager([b \in 1..Len(seqs) |->
            IF t <= Len(seqs[b]) THEN seqs[b][t] ELSE Zeros(width)])])

\* line 62 with the second slice taken like the first
SumDirections_SameHalf(outputs, hidden_size) ==
    Eager([t \in 1..Len(outputs) |-> Eager([b \in 1..Len(outputs[t]) |->
        Eager([i \in 1..hidden_size |->
            RAdd(outputs[t][b][i], outputs[t][b][i])])])])

\* line 62: outputs[:, :, :hidden_size] + outputs[:, :, hidden_size:]
SumDirections(outputs, hidden_size) ==
    Eager([t \in 1..Len(outputs) |-> Eager([b \in 1..Len(outputs[t]) |->
        Eager([i \in 1..hidden_size |->
            RAdd(outputs[t][b][i], outputs[t][b][hidden_size + i])])])])

\* line 55 and line 57: the initial state handed to the recurrent layer
HandedHidden(rnn_type, hidden) == IF rnn_type = "LSTM" THEN None ELSE hidden

\* EncoderRNN.forward
EncoderRNN_forward(h, self, rnn_type, input_seq, input_lengths, hidden) ==
    LET embedded == Embed(h, self.embedding, input_seq)
        packed == pack_padded_sequence(embedded, input_lengths)
        h0 == HandedHidden(rnn_type, hidden)
        failed(e) == [raised |-> e, rnn_h0 |-> None, rnn_out |-> <<>>,
                      outputs |-> <<>>, hidden |-> None]
    IN  IF packed.raised # None THEN failed(packed.raised)
        ELSE IF rnn_type \notin {"LSTM", "GRU"}
        THEN failed([kind |-> "UnboundLocalError", site |-> "EncoderRNN.forward",
                     arg |-> "outputs"])
        ELSE LET r == BiRnn(h, "encoder.rnn", packed.seqs, h0)
                 unpacked == pad_packed_sequence(r.out, 2 * self.hidden_size)
             IN  [raised |-> None,
                  rnn_h0 |-> h0,
                  rnn_out |-> unpacked,
                  outputs |-> SumDirections(unpacked, self.hidden_size),
                  hidden |-> IF rnn_type = "LSTM"
                             THEN [kind |-> "Tuple", h |-> r.h_n, c |-> r.h_n]
                             ELSE Tensor(r.h_n)]

\* the batches of lengths a caller passes with a padded batch of T steps
Lengths(T) == [1..BatchSize -> 0..T]

\* a caller runs the encoder on a padded batch
EncoderForward ==
    /\ pc = "done"
    /\ call = None
    /\ \E T \in 1..MaxLen, s \in Seeds :
       \E input_lengths \in Lengths(T), hidden \in {None, Tensor(GenTensor(s + 1, 2))} :
         LET input_seq == GenWords(s, T)
             r == EncoderRNN_forward(heap, encoder, RNN_TYPE, input_seq,
                                     input_lengths, hidden)
         IN  call' = [op |-> "EncoderRNN.forward", input_seq |-> input_seq,
                      input_lengths |-> input_lengths, hidden_arg |-> hidden,
                      raised |-> r.raised, rnn_h0 |-> r.rnn_h0, rnn_out |-> r.rnn_out,
                      outputs |-> r.outputs, hidden |-> r.hidden]
    /\ UNCHANGED <<pc, config, heap, embedding, encoder, decoder, encoder_optimizer,
                   decoder_optimizer, raised, steps>>

\* ------------------------------------------------------------------ decoder
\* the dropout probability of the embedding dropout (DROPOUT of config)
DROPOUT == <<1, 2>>

\* nn.Dropout in training mode: the elements of the mask are zeroed, the others
\* scaled by 1 / (1 - p)
Dropout(x, mask) ==
    LET scale == Norm(DROPOUT[2], DROPOUT[2] - DROPOUT[1])
    IN  Eager([t \in 1..Len(x) |-> Eager([b \in 1..Len(x[t]) |-> Eager([i \in 1..Len(x[t][b]) |->
            IF i \in mask THEN R(0) ELSE RMul(x[t][b][i], scale)])])])

\* line 163: attn_weights.bmm(encoder_outputs.transpose(0, 1)), of shape (B, 1, H)
Context(attn_weights, encoder_outputs) ==
    Eager([b \in 1..Len(attn_weights) |-> Eager([o \in 1..Len(attn_weights[b]) |->
        Eager([i \in 1..Len(encoder_outputs[1][b]) |->
            RSum(Eager([t \in 1..Len(encoder_outputs) |->
                    RMul(attn_weights[b][o][t], encoder_outputs[t][b][i])]))])])])

\* lines 165-171: squeeze, concatenate, Luong eq. 5 and eq. 6, softmax over dim 1
Predict(h, self, rnn_output, context) ==
    LET Wc == Weight(h, "decoder.concat", 1, self.hidden_size, 2 * self.hidden_size)
        bc == Bias(h, "decoder.concat", 1, self.hidden_size)
        Wo == Weight(h, "decoder.out", 2, self.output_size, self.hidden_size)
        bo == Bias(h, "decoder.out", 2, self.output_size)
    IN  Eager([b \in 1..Len(rnn_output[1]) |->
            LET concat_input == rnn_output[1][b] \o context[b][1]
                lin == Linear(Wc, bc, concat_input)
                concat_output == Eager([i \in 1..Len(lin) |-> Tanh(lin[i])])
            IN  SoftmaxRow(Linear(Wo, bo, concat_output))])

\* LuongAttnDecoderRNN.forward
LuongAttnDecoderRNN_forward(h, self, rnn_type, input_step, last_hidden, encoder_outputs, mask) ==
    LET embedded == Dropout(Embed(h, self.embedding, input_step), mask)
        failed(e) == [raised |-> e, rnn_output |-> <<>>, attn_weights |-> <<>>,
                      context |-> <<>>, output |-> <<>>, rnn_hidden |-> None,
                      hidden |-> None]
    IN  IF rnn_type \notin {"LSTM", "GRU"}
        THEN failed([kind |-> "UnboundLocalError", site |-> "LuongAttnDecoderRNN.forward",
                     arg |-> "rnn_output"])
        ELSE LET rnn_output == << Eager([b \in 1..Len(embedded[1]) |->
                                     Cell(h, "decoder.rnn", embedded[1][b],
                                          last_hidden.h[1][b])]) >>
                 rnn_hidden == IF rnn_type = "LSTM"
                               THEN [kind |-> "Tuple", h |-> rnn_output,
                                     c |-> << Eager([b \in 1..Len(embedded[1]) |->
                                                 VecAdd(last_hidden.c[1][b],
                                                        embedded[1][b])]) >>]
                               ELSE [kind |-> "Tensor", h |-> rnn_output]
                 a == Attn_forward(h, self.attn, rnn_output, encoder_outputs)
             IN  IF a.raised # None THEN failed(a.raised)
                 ELSE LET context == Context(a.value, encoder_outputs)
                      IN  [raised |-> None,
                           rnn_output |-> rnn_output,
                           attn_weights |-> a.value,
                           context |-> context,
                           output |-> Predict(h, self, rnn_output, context),
                           rnn_hidden |-> rnn_hidden,
                           hidden |-> rnn_hidden]

\* the previous decoder state a caller passes: a tensor for the GRU, the pair
\* (h, c) for the LSTM
LastHidden(rnn_type, seed) ==
    IF rnn_type = "LSTM"
    THEN [kind |-> "Tuple", h |-> GenTensor(seed, 1), c |-> GenTensor(seed + 1, 1)]
    ELSE [kind |-> "Tensor", h |-> GenTensor(seed, 1)]

\* a caller runs one decoding step
DecoderForward ==
    /\ pc = "done"
    /\ call = None
    /\ \E T \in 1..MaxLen, s1 \in Seeds, s2 \in Seeds, mask \in {{}, {1}} :
         LET input_step == GenWords(s1, 1)
             last_hidden == LastHidden(RNN_TYPE, s1)
             encoder_outputs == GenTensor(s2 + 1, T)
             r == LuongAttnDecoderRNN_forward(heap, decoder, RNN_TYPE, input_step,
                                              last_hidden, encoder_outputs, mask)
         IN  call' = [op |-> "LuongAttnDecoderRNN.forward",
                      input_step |-> input_step, last_hidden |-> last_hidden,
                      encoder_outputs |-> encoder_outputs, raised |-> r.raised,
                      rnn_output |-> r.rnn_output, attn_weights |-> r.attn_weights,
                      context |-> r.context, output |-> r.output,
                      rnn_hidden |-> r.rnn_hidden, hidden |-> r.hidden]
    /\ UNCHANGED <<pc, config, heap, embedding, encoder, decoder, encoder_optimizer,
                   decoder_optimizer, raised, steps>>

\* ------------------------------------------------------------------ optimizers
\* Adam.step: every parameter of the optimizer moves by its learning rate against
\* the direction dir of the bias-corrected moment ratio (0: no gradient, no move)
AdamStep(h, opt, dir) ==
    [p \in ParamIds |->
        IF p \in opt.params
        THEN [h[p] EXCEPT !.w = RAdd(h[p].w, RNeg(R(opt.lr * dir)))]
        ELSE h[p]]

StepRecord(name, opt, dir) ==
    [op |-> "Adam.step", optimizer |-> name, lr |-> opt.lr, dir |-> dir,
     encoder_embedding |-> heap[encoder.embedding.weight].w,
     decoder_embedding |-> heap[decoder.embedding.weight].w]

\* the training loop calls encoder_optimizer.step()
EncoderOptimizerStep ==
    /\ pc = "done"
    /\ steps < MaxSteps
    /\ \E dir \in {-1, 0, 1} :
         /\ heap' = AdamStep(heap, encoder_optimizer, dir)
         /\ call' = StepRecord("encoder_optimizer", encoder_optimizer, dir)
    /\ encoder_optimizer' = [encoder_optimizer EXCEPT !.state = encoder_optimizer.params]
    /\ steps' = steps + 1
    /\ UNCHANGED <<pc, config, embedding, encoder, decoder, decoder_optimizer, raised>>

\* the training loop calls decoder_optimizer.step()
DecoderOptimizerStep ==
    /\ pc = "done"
    /\ steps < MaxSteps
    /\ \E dir \in {-1, 0, 1} :
         /\ heap' = AdamStep(heap, decoder_optimizer, dir)
         /\ call' = StepRecord("decoder_optimizer", decoder_optimizer, dir)
    /\ decoder_optimizer' = [decoder_optimizer EXCEPT !.state = decoder_optimizer.params]
    /\ steps' = steps + 1
    /\ UNCHANGED <<pc, config, embedding, encoder, decoder, encoder_optimizer, raised>>

\* the caller has taken the result of the last call
Return ==
    /\ pc = "done"
    /\ call # None
    /\ call.op # "Adam.step"
    /\ call' = None
    /\ UNCHANGED <<pc, config, heap, embedding, encoder, decoder, encoder_optimizer,
                   decoder_optimizer, raised, steps>>

\* ------------------------------------------------------------------ specification
\* the module-level initialisation under every configuration, and the steps of
\* the two optimizers it builds
Next ==
    \/ MakeEmbedding
    \/ MakeEncoder
    \/ MakeDecoder
    \/ EncoderTo
    \/ DecoderTo
    \/ MakeEncoderOptimizer
    \/ MakeDecoderOptimizer
    \/ MoveOptimizerState
    \/ EncoderOptimizerStep
    \/ DecoderOptimizerStep

Spec == Init /\ [][Next]_vars

\* the forward functions: the initialisation under every recurrent-layer type and
\* attention-method name, then calls of the three forward functions on the
\* objects it built, with arguments drawn from the generators
CallInit ==
    /\ Init
    /\ DEVICE = "cuda"
    /\ LEARNING_RATE = 1
    /\ DECODER_LEARNING_RATIO = 5

CallNext ==
    \/ MakeEmbedding
    \/ MakeEncoder
    \/ MakeDecoder
    \/ EncoderTo
    \/ DecoderTo
    \/ MakeEncoderOptimizer
    \/ MakeDecoderOptimizer
    \/ MoveOptimizerState
    \/ AttnForward
    \/ EncoderForward
    \/ DecoderForward
    \/ Return

CallSpec == CallInit /\ [][CallNext]_vars

\* ------------------------------------------------------------------ properties
Recognized == {"dot", "general", "concat"}

DecoderStatementRan == pc \notin {"embedding", "encoder", "decoder"}

\* the last call is a call of op that returned
Returned(op) == call # None /\ call.op = op /\ call.raised = None

\* row is a probability distribution: numbers that are not NaN, none negative,
\* with sum 1
IsDistribution(row) ==
    /\ \A i \in 1..Len(row) : ~IsNaN(row[i]) /\ row[i][1] >= 0
    /\ RSum(row) = R(1)

\* C1: constructing Attn raises ValueError exactly when the method name is not
\* one of dot, general, concat; for those three an Attn (and the decoder holding
\* it) is produced, for any other name none is
C1_AttnRaisesIffUnrecognized ==
    /\ DecoderStatementRan =>
         /\ (pc = "raised") <=> (ATTN_MODEL \notin Recognized)
         /\ (decoder # None) <=> (ATTN_MODEL \in Recognized)
    /\ raised # None => raised.kind = "ValueError" /\ raised.arg = ATTN_MODEL
    /\ decoder # None => decoder.attn.kind = "Attn" /\ decoder.attn.method = ATTN_MODEL

C1_Witness == pc = "raised" /\ ATTN_MODEL = "bilinear" /\ decoder = None

\* C2: the check of the attention-method name is the only validation: whatever
\* RNN_TYPE is, the encoder is constructed, and an exception in the
\* initialisation comes from Attn.__init__ on an unrecognized name
C2_OnlyAttnNameValidated ==
    /\ pc \notin {"embedding", "encoder"} => encoder # None /\ encoder.kind = "EncoderRNN"
    /\ raised # None => raised.site = "Attn.__init__" /\ ATTN_MODEL \notin Recognized
    /\ (pc = "done" /\ RNN_TYPE \notin {"LSTM", "GRU"}) =>
         decoder # None /\ decoder.layers \cap {"lstm", "gru"} = {}

C2_Witness ==
    /\ pc = "done"
    /\ RNN_TYPE = "RNN"
    /\ encoder.layers = {}
    /\ decoder.kind = "LuongAttnDecoderRNN"

\* C3: Attn.forward returns weights of shape (B, 1, T) whose entries for each
\* batch element form one distribution over the T source positions
C3_AttnWeightsDistribution ==
    Returned("Attn.forward") =>
        /\ Len(call.value) = BatchSize
        /\ \A b \in 1..BatchSize :
             /\ Len(call.value[b]) = 1
             /\ Len(call.value[b][1]) = Len(call.encoder_outputs)
             /\ IsDistribution(call.value[b][1])

\* C3, where the parameters hold numbers: the same statement for every Attn whose
\* v is not NaN
C3_AttnWeightsDistributionFinite ==
    (Returned("Attn.forward") /\ ~IsNaN(heap["attn.v"].w)) =>
        /\ Len(call.value) = BatchSize
        /\ \A b \in 1..BatchSize :
             /\ Len(call.value[b]) = 1
             /\ Len(call.value[b][1]) = Len(call.encoder_outputs)
             /\ IsDistribution(call.value[b][1])

\* C4: the encoder returns the element-wise sum of the two directions: feature
\* width hidden_size, outputs[t, b, i] = R[t, b, i] + R[t, b, hidden_size + i]
C4_BidirectionalSum ==
    Returned("EncoderRNN.forward") =>
        /\ Len(call.outputs) = Len(call.rnn_out)
        /\ \A t \in 1..Len(call.outputs) : \A b \in 1..BatchSize :
             /\ Len(call.rnn_out[t][b]) = 2 * HIDDEN_SIZE
             /\ Len(call.outputs[t][b]) = HIDDEN_SIZE
             /\ \A i \in 1..HIDDEN_SIZE :
                  call.outputs[t][b][i] =
                      RAdd(call.rnn_out[t][b][i], call.rnn_out[t][b][HIDDEN_SIZE + i])

C4_Witness ==
    /\ Returned("EncoderRNN.forward")
    /\ Len(call.outputs) = MaxLen
    /\ \E b \in 1..BatchSize, i \in 1..HIDDEN_SIZE :
         /\ call.rnn_out[1][b][i] # call.rnn_out[1][b][HIDDEN_SIZE + i]
         /\ call.outputs[1][b][i] # R(0)

Sorted(lengths) ==
    /\ \A b \in 1..Len(lengths) : lengths[b] > 0
    /\ \A b \in 1..(Len(lengths) - 1) : lengths[b] >= lengths[b + 1]

\* C5: for lengths in non-increasing order the encoder returns outputs as long as
\* the longest sequence, with the zero vector at every position at or after the
\* end of a sequence
C5_PaddingIsZero ==
    /\ Returned("EncoderRNN.forward") =>
         /\ Sorted(call.input_lengths)
         /\ \A b \in 1..BatchSize : Len(call.outputs) >= call.input_lengths[b]
         /\ \E b \in 1..BatchSize : Len(call.outputs) = call.input_lengths[b]
         /\ \A b \in 1..BatchSize : \A t \in 1..Len(call.outputs) :
              t > call.input_lengths[b] =>
                  call.outputs[t][b] = [i \in 1..HIDDEN_SIZE |-> R(0)]
    /\ (/\ call # None
        /\ call.op = "EncoderRNN.forward"
        /\ Sorted(call.input_lengths)
        /\ call.input_lengths[1] <= Len(call.input_seq)
        /\ RNN_TYPE \in {"LSTM", "GRU"}) => call.raised = None

C5_Witness ==
    /\ Returned("EncoderRNN.forward")
    /\ Len(call.input_seq) = MaxLen
    /\ \E b \in 1..BatchSize : call.input_lengths[b] < Len(call.outputs)
    /\ \E b \in 1..BatchSize, i \in 1..HIDDEN_SIZE :
         call.outputs[Len(call.outputs)][b][i] # R(0)

\* C6: one decoding step: the context of b is the attention-weighted sum of the
\* encoder outputs of b, the output has shape (B, output_size) with each row a
\* distribution over the vocabulary, and the hidden state returned is the
\* recurrent layer's new state
C6_DecoderStep ==
    Returned("LuongAttnDecoderRNN.forward") =>
        /\ Len(call.input_step) = 1
        /\ \A b \in 1..BatchSize : \A i \in 1..HIDDEN_SIZE :
             call.context[b][1][i] =
                 RSum([t \in 1..Len(call.encoder_outputs) |->
                         RMul(call.attn_weights[b][1][t],
                              call.encoder_outputs[t][b][i])])
        /\ Len(call.output) = BatchSize
        /\ \A b \in 1..BatchSize :
             /\ Len(call.output[b]) = NumWords
             /\ IsDistribution(call.output[b])
        /\ call.hidden = call.rnn_hidden

\* C6, where the parameters hold numbers: the same statement for every decoder
\* whose attention v is not NaN
C6_DecoderStepFinite ==
    (Returned("LuongAttnDecoderRNN.forward") /\ ~IsNaN(heap["attn.v"].w)) =>
        /\ \A b \in 1..BatchSize : \A i \in 1..HIDDEN_SIZE :
             call.context[b][1][i] =
                 RSum([t \in 1..Len(call.encoder_outputs) |->
                         RMul(call.attn_weights[b][1][t],
                              call.encoder_outputs[t][b][i])])
        /\ Len(call.output) = BatchSize
        /\ \A b \in 1..BatchSize :
             /\ Len(call.output[b]) = NumWords
             /\ IsDistribution(call.output[b])
        /\ call.hidden = call.rnn_hidden

AllOnDevice(params) == \A p \in params : heap[p].alloc /\ heap[p].device = DEVICE

\* C7: the initialisation runs in a fixed order: the embedding, then the encoder
\* and the decoder built from it, then both moved to DEVICE, and only then the
\* two Adam optimizers, the encoder's with rate LEARNING_RATE, the decoder's with
\* rate LEARNING_RATE * DECODER_LEARNING_RATIO and weight decay 1e-5
C7_InitialisationOrder ==
    /\ encoder # None => embedding # None /\ encoder.embedding = embedding
    /\ decoder # None => encoder # None /\ decoder.embedding = embedding
    /\ encoder_optimizer # None =>
         /\ decoder # None
         /\ AllOnDevice(Parameters(encoder) \cup Parameters(decoder))
         /\ encoder_optimizer.kind = "Adam"
         /\ encoder_optimizer.lr = LEARNING_RATE
    /\ decoder_optimizer # None =>
         /\ encoder_optimizer # None
         /\ decoder_optimizer.kind = "Adam"
         /\ decoder_optimizer.lr = LEARNING_RATE * DECODER_LEARNING_RATIO
         /\ decoder_optimizer.weight_decay = <<1, 100000>>

C7_Witness ==
    /\ pc = "done"
    /\ DEVICE = "cuda"
    /\ DECODER_LEARNING_RATIO = 5
    /\ decoder_optimizer.lr = 5 * encoder_optimizer.lr
    /\ heap["embedding"].device = "cuda"

\* C8: forward of a constructed Attn takes the one branch of its method, whose
\* layers the constructor created, so attn_energies is bound
C8_BranchMatchesMethod ==
    /\ (call # None /\ call.op = "Attn.forward") =>
         /\ call.raised = None
         /\ call.self.method = "general" => call.branch = "general_score"
         /\ call.self.method = "concat" => call.branch = "concat_score"
         /\ call.self.method = "dot" => call.branch = "dot_score"
         /\ call.branch \in {"general_score", "concat_score"} => "attn" \in call.self.layers
         /\ call.branch = "concat_score" => "v" \in call.self.layers
    /\ (call # None /\ call.op = "LuongAttnDecoderRNN.forward" /\ call.raised # None) =>
         call.raised.site # "Attn.forward"

C8_Witness ==
    /\ Returned("Attn.forward")
    /\ call.self.method = "concat"
    /\ call.branch = "concat_score"

\* C9: the encoder and the decoder hold the same embedding, which is a parameter
\* of both optimizers: every step of either moves the weights both of them see,
\* by that optimizer's learning rate
C9_SharedEmbedding ==
    /\ decoder # None => encoder.embedding.weight = decoder.embedding.weight
    /\ encoder_optimizer # None => encoder.embedding.weight \in encoder_optimizer.params
    /\ decoder_optimizer # None => decoder.embedding.weight \in decoder_optimizer.params
    /\ (call # None /\ call.op = "Adam.step") =>
         /\ call.lr = IF call.optimizer = "encoder_optimizer" THEN LEARNING_RATE
                      ELSE LEARNING_RATE * DECODER_LEARNING_RATIO
         /\ heap[encoder.embedding.weight].w =
                RAdd(call.encoder_embedding, R(-(call.lr * call.dir)))
         /\ heap[decoder.embedding.weight].w = heap[encoder.embedding.weight].w

C9_Witness ==
    /\ call # None
    /\ call.op = "Adam.step"
    /\ call.optimizer = "decoder_optimizer"
    /\ steps = 2
    /\ heap["embedding"].w # R(0)
    /\ encoder_optimizer.state # {}

\* C10: the hidden argument of EncoderRNN.forward is the initial state handed to
\* the recurrent layer, under the GRU and under the LSTM
C10_HiddenHanded ==
    Returned("EncoderRNN.forward") => call.rnn_h0 = call.hidden_arg

\* C10, under the GRU alone
C10_HiddenHandedGRU ==
    (Returned("EncoderRNN.forward") /\ RNN_TYPE = "GRU") => call.rnn_h0 = call.hidden_arg

====
